---- MODULE Spec2Model ----
(***************************************************************************)
(* Model of saleor's discount subsystem:                                   *)
(*   - SaleToPromotionConverter (saleor/discount/tasks.py), the migration  *)
(*     of Sale / SaleChannelListing rows into Promotion / PromotionRule    *)
(*     rows, with its two keyset batch iterators;                          *)
(*   - handle_sale_toggle, the periodic notification task;                 *)
(*   - the sale(id) query of the GraphQL read side, which presents a       *)
(*     Promotion under the legacy Sale shape.                              *)
(*                                                                         *)
(* A nullable column is the empty tuple (Null) or a one-element tuple.     *)
(***************************************************************************)
EXTENDS Integers, Sequences, FiniteSets, TLC

\* ------------------------------------------------------------------ bounds
\* Sale primary keys are 1..n for some n <= MaxSale.
MaxSale == 3
\* At most MaxListings SaleChannelListing rows exist.
MaxListings == 3
\* BATCH_SIZE is drawn from 1..MaxBatchSize (the source fixes it at 100;
\* the tables here are scaled down with it).
MaxBatchSize == 2
\* Collections, categories, products and variants have pks 1..MaxCatalogueId.
MaxCatalogueId == 2
\* The clock runs from 1 to MaxTime.
MaxTime == 3
\* handle_sale_toggle is started at most MaxRuns times.
MaxRuns == 2

\* calls of convert_sales_to_promotions
MaxMigrations == 2

Channels == {1, 2}
DiscountValues == {10, 20}

Null == <<>>
Some(v) == <<v>>

\* ------------------------------------------------------------------ state
VARIABLES
    \* database tables
    sales,                    \* Sale: pk -> row
    listings,                 \* SaleChannelListing rows
    sale_translations,        \* SaleTranslation rows
    order_line_discounts,     \* OrderLineDiscount rows
    checkout_line_discounts,  \* CheckoutLineDiscount rows
    promotions,               \* Promotion: sequence, pk = index
    rules,                    \* PromotionRule: sequence, pk = index
    promotion_translations,   \* PromotionTranslation rows
    \* SaleToPromotionConverter.convert_sales_to_promotions
    batch_size,               \* cls.BATCH_SIZE
    migration_run,            \* which call of convert_sales_to_promotions
    pc,                       \* position of the migration
    phase,                    \* 1: listed sales, 2: sales not listed
    first_sale_id,            \* channel_listing_in_batches local
    start_pk,                 \* queryset_in_batches local
    sale_listing_batch_pks,   \* pks yielded by channel_listing_in_batches
    sales_batch_pks,          \* sale pks of the batch being migrated
    saleid_promotion_map,     \* sale id -> Promotion pk, of this batch
    rules_info,               \* RuleInfo list of this batch
    listing_batches,          \* every batch channel_listing_in_batches yielded
    sale_pages,               \* every page queryset_in_batches fetched
    \* GraphQL read side
    sale_response,            \* what the sale(id) query served last returned
    \* handle_sale_toggle
    clock,                    \* datetime.now(pytz.UTC)
    overlap,                  \* may the scheduler start a run during another
    toggle,                   \* run -> position and locals of that run
    hook_calls,               \* every manager.sale_toggle call made
    jobs                      \* every recalculation task enqueued

\* what the migration and the read side change, the Sale table aside
mig_vars == <<listings, sale_translations, order_line_discounts,
              checkout_line_discounts, promotions, rules,
              promotion_translations, batch_size, pc, phase, first_sale_id,
              start_pk, sale_listing_batch_pks, sales_batch_pks,
              saleid_promotion_map, rules_info, listing_batches, sale_pages,
              sale_response, migration_run>>

\* what handle_sale_toggle changes, the Sale table aside
tog_vars == <<clock, overlap, toggle, hook_calls, jobs>>

vars == <<sales, mig_vars, tog_vars>>

\* ---------------------------------------------------------------- helpers
Min(a, b) == IF a <= b THEN a ELSE b

Take(seq, n) == SubSeq(seq, 1, Min(n, Len(seq)))

Range(seq) == {seq[i] : i \in DOMAIN seq}

\* All the orders in which a query may return the set rows.
Orders(rows) ==
    {f \in [1..Cardinality(rows) -> rows] :
        \A i, j \in DOMAIN f : i # j => f[i] # f[j]}

\* qs.order_by("sale_id"): rows of equal sale_id come in an order the
\* database picks.
OrderBySaleId(rows) ==
    {f \in Orders(rows) :
        \A i, j \in DOMAIN f : i < j => f[i].sale_id <= f[j].sale_id}

RECURSIVE OrderByPk(_)
\* A set of primary keys in ascending order.
OrderByPk(pks) ==
    IF pks = {} THEN <<>>
    ELSE LET m == CHOOSE x \in pks : \A y \in pks : x <= y
         IN <<m>> \o OrderByPk(pks \ {m})

\* graphene.Node.to_global_id: the reversible encoding of "Type:pk".
to_global_id(type_name, pk) == <<type_name, pk>>

\* ------------------------------------------- SaleToPromotionConverter
ids_of(type_name, pks) == {to_global_id(type_name, pk) : pk \in pks}

\* create_catalogue_predicate without its four emptiness tests.
create_catalogue_predicate_unguarded(sale) ==
    [OR |-> <<[collectionPredicate |->
                  [ids |-> ids_of("Collection", sale.collections)]],
              [categoryPredicate |->
                  [ids |-> ids_of("Category", sale.categories)]],
              [productPredicate |->
                  [ids |-> ids_of("Product", sale.products)]],
              [variantPredicate |->
                  [ids |-> ids_of("ProductVariant", sale.variants)]]>>]

\* The "ids" list of a clause is held as the set of its members: the order
\* of values_list("pk") is the database's.
create_catalogue_predicate(sale) ==
    LET collection_ids == ids_of("Collection", sale.collections)
        category_ids == ids_of("Category", sale.categories)
        product_ids == ids_of("Product", sale.products)
        variant_ids == ids_of("ProductVariant", sale.variants)
        c1 == IF collection_ids # {}
              THEN <<[collectionPredicate |-> [ids |-> collection_ids]]>>
              ELSE <<>>
        c2 == IF category_ids # {}
              THEN <<[categoryPredicate |-> [ids |-> category_ids]]>>
              ELSE <<>>
        c3 == IF product_ids # {}
              THEN <<[productPredicate |-> [ids |-> product_ids]]>>
              ELSE <<>>
        c4 == IF variant_ids # {}
              THEN <<[variantPredicate |-> [ids |-> variant_ids]]>>
              ELSE <<>>
    IN [OR |-> c1 \o c2 \o c3 \o c4]

convert_sale_into_promotion(sale_id, sale) ==
    [old_sale_id |-> sale_id,
     start_date |-> sale.start_date,
     end_date |-> sale.end_date]

create_promotion_rule(sale, promotion, discount_value) ==
    [promotion |-> promotion,
     catalogue_predicate |-> create_catalogue_predicate(sale),
     reward_value_type |-> sale.type,
     reward_value |-> discount_value,
     channels |-> {}]

\* RuleInfo.add_rule_to_channel
add_rule_to_channel(rule, channel_id) ==
    [rule EXCEPT !.channels = @ \cup {channel_id}]

\* A lookup key that leaves the channel out.
lookup_key_by_sale(channel_id, sale_id) == <<"_", sale_id>>

\* The lookup key f"{channel_id}_{sale_id}".
lookup_key(channel_id, sale_id) == <<channel_id, "_", sale_id>>

\* A dict comprehension: of two entries with one key the later one stays.
get_rule_by_channel_sale(infos) ==
    [k \in {lookup_key(infos[i].channel_id, infos[i].sale_id) :
               i \in DOMAIN infos} |->
        LET last == CHOOSE i \in DOMAIN infos :
                /\ lookup_key(infos[i].channel_id, infos[i].sale_id) = k
                /\ \A j \in DOMAIN infos :
                      lookup_key(infos[j].channel_id, infos[j].sale_id) = k
                          => j <= i
        IN infos[last].rule]

\* The loop body shared by migrate_checkout_line_discounts and
\* migrate_order_line_discounts, followed by their bulk_update.
repoint_line_discounts(discounts, sales_pks, rule_by_channel_and_sale) ==
    {IF /\ d.sale_id \in sales_pks
        /\ d.line # Null
        /\ lookup_key(d.line[1], d.sale_id) \in DOMAIN rule_by_channel_and_sale
     THEN [d EXCEPT !.promotion_rule =
              Some(rule_by_channel_and_sale[lookup_key(d.line[1], d.sale_id)])]
     ELSE d : d \in discounts}

\* channel_listing_in_batches without batch_2: the window is yielded as is.
listing_batch_unextended(qs, order, first, size) == Range(Take(order, size))

\* channel_listing_in_batches whose batch_2 is not cut at first_sale_id.
listing_batch_from_start(qs, order, first, size) ==
    LET batch_1 == Take(order, size)
        last_sale_id == batch_1[Len(batch_1)].sale_id
    IN IF Len(batch_1) = 0 THEN {}
       ELSE {l \in qs : l.sale_id <= last_sale_id}

\* The rows channel_listing_in_batches yields the pks of in one round, for one
\* order in which the database returns the listings of sale_id above first:
\* batch_1 is the window of size rows, batch_2 extends it to every listing
\* up to the last sale_id of the window.  No rows when the window is empty.
listing_batch_of(qs, order, first, size) ==
    LET batch_1 == Take(order, size)
        last_sale_id == batch_1[Len(batch_1)].sale_id
    IN IF Len(batch_1) = 0 THEN {}
       ELSE {l \in qs : l.sale_id > first /\ l.sale_id <= last_sale_id}

\* batch_2[0].sale_id
first_sale_id_of(batch_2) ==
    CHOOSE s \in {l.sale_id : l \in batch_2} : \A l \in batch_2 : s <= l.sale_id

\* batch_2[len(batch_2) - 1].sale_id, batch_2 being ordered by sale_id.
last_sale_id_of(batch_2) ==
    CHOOSE s \in {l.sale_id : l \in batch_2} : \A l \in batch_2 : l.sale_id <= s

\* Sale.objects.filter(~Exists(sales_listing.filter(sale_id=OuterRef("pk"))))
sales_not_listed == {s \in DOMAIN sales : \A l \in listings : l.sale_id # s}

\* A page one row short of the batch size.
page_of_short(pks, start, size) ==
    Take(OrderByPk({pk \in pks : pk > start}), size - 1)

\* queryset.filter(pk__gt=start_pk)[: cls.BATCH_SIZE] as a list of pks
page_of(pks, start, size) == Take(OrderByPk({pk \in pks : pk > start}), size)

\* start_pk = pks[0]
next_start_pk_first(pks) == pks[1]

\* start_pk = pks[-1]
next_start_pk(pks) == pks[Len(pks)]

\* One resumption of channel_listing_in_batches and the head of the loop of
\* convert_sales_to_promotions that consumes it.
channel_listing_in_batches ==
    /\ pc = "listing_batches"
    /\ \E order \in OrderBySaleId({l \in listings : l.sale_id > first_sale_id}) :
         LET batch_2 == listing_batch_of(listings, order, first_sale_id,
                                         batch_size)
             pks == {l.pk : l \in batch_2}
         IN IF pks = {}
            THEN /\ pc' = "sale_batches"
                 /\ phase' = 2
                 /\ UNCHANGED <<first_sale_id, sale_listing_batch_pks,
                                sales_batch_pks, saleid_promotion_map,
                                rules_info, listing_batches>>
            ELSE /\ pc' = "promotions"
                 /\ phase' = 1
                 /\ first_sale_id' = last_sale_id_of(batch_2)
                 /\ sale_listing_batch_pks' = pks
                 /\ sales_batch_pks' = {l.sale_id : l \in batch_2}
                 /\ saleid_promotion_map' = <<>>
                 /\ rules_info' = <<>>
                 /\ listing_batches' = Append(listing_batches, pks)
    /\ sale_response' = Null
    /\ UNCHANGED <<migration_run, tog_vars>>
    /\ UNCHANGED <<sales, listings, sale_translations, order_line_discounts,
                   checkout_line_discounts, promotions, rules,
                   promotion_translations, batch_size, start_pk, sale_pages>>

\* One resumption of queryset_in_batches and the head of the second loop.
queryset_in_batches ==
    /\ pc = "sale_batches"
    /\ LET pks == page_of(sales_not_listed, start_pk, batch_size)
       IN /\ sale_pages' = Append(sale_pages, pks)
          /\ IF pks = <<>>
             THEN /\ pc' = "done"
                  /\ UNCHANGED <<start_pk, sales_batch_pks,
                                 saleid_promotion_map>>
             ELSE /\ pc' = "promotions"
                  /\ start_pk' = next_start_pk(pks)
                  /\ sales_batch_pks' = Range(pks)
                  /\ saleid_promotion_map' = <<>>
    /\ sale_response' = Null
    /\ UNCHANGED <<migration_run, tog_vars>>
    /\ UNCHANGED <<sales, listings, sale_translations, order_line_discounts,
                   checkout_line_discounts, promotions, rules,
                   promotion_translations, batch_size, phase, first_sale_id,
                   sale_listing_batch_pks, rules_info, listing_batches>>

\* migrate_sales_to_promotions that takes for a sale the Promotion that has
\* its old_sale_id, when there is one, and creates none.
migrate_sales_to_promotions_get_or_create ==
    /\ pc = "promotions"
    /\ LET existing(s) ==
               {p \in DOMAIN promotions : promotions[p].old_sale_id = s}
           batch == OrderByPk({s \in DOMAIN sales :
                                  s \in sales_batch_pks /\ existing(s) = {}})
           created == [i \in DOMAIN batch |->
                          convert_sale_into_promotion(batch[i], sales[batch[i]])]
       IN /\ promotions' = promotions \o created
          /\ saleid_promotion_map' =
                [s \in DOMAIN saleid_promotion_map
                         \cup (sales_batch_pks \cap DOMAIN sales) |->
                    IF s \in Range(batch)
                    THEN Len(promotions)
                         + (CHOOSE i \in DOMAIN batch : batch[i] = s)
                    ELSE IF s \in sales_batch_pks
                    THEN CHOOSE p \in existing(s) : TRUE
                    ELSE saleid_promotion_map[s]]
    /\ pc' = IF phase = 1 THEN "listing_rules" ELSE "sale_rules"
    /\ sale_response' = Null
    /\ UNCHANGED <<migration_run, tog_vars>>
    /\ UNCHANGED <<sales, listings, sale_translations, order_line_discounts,
                   checkout_line_discounts, rules, promotion_translations,
                   batch_size, phase, first_sale_id, start_pk,
                   sale_listing_batch_pks, sales_batch_pks, rules_info,
                   listing_batches, sale_pages>>

migrate_sales_to_promotions ==
    /\ pc = "promotions"
    /\ LET batch == OrderByPk({s \in DOMAIN sales : s \in sales_batch_pks})
           created == [i \in DOMAIN batch |->
                          convert_sale_into_promotion(batch[i], sales[batch[i]])]
       IN /\ promotions' = promotions \o created
          /\ saleid_promotion_map' =
                [s \in DOMAIN saleid_promotion_map \cup Range(batch) |->
                    IF s \in Range(batch)
                    THEN Len(promotions)
                         + (CHOOSE i \in DOMAIN batch : batch[i] = s)
                    ELSE saleid_promotion_map[s]]
    /\ pc' = IF phase = 1 THEN "listing_rules" ELSE "sale_rules"
    /\ sale_response' = Null
    /\ UNCHANGED <<migration_run, tog_vars>>
    /\ UNCHANGED <<sales, listings, sale_translations, order_line_discounts,
                   checkout_line_discounts, rules, promotion_translations,
                   batch_size, phase, first_sale_id, start_pk,
                   sale_listing_batch_pks, sales_batch_pks, rules_info,
                   listing_batches, sale_pages>>

migrate_sale_listing_to_promotion_rules ==
    /\ pc = "listing_rules"
    /\ \E sale_listings \in
           OrderBySaleId({l \in listings : l.pk \in sale_listing_batch_pks}) :
         LET infos == rules_info \o
                 [i \in DOMAIN sale_listings |->
                     [rule |-> Len(rules) + i,
                      sale_id |-> sale_listings[i].sale_id,
                      channel_id |-> sale_listings[i].channel_id]]
             created == [i \in DOMAIN sale_listings |->
                 add_rule_to_channel(
                     create_promotion_rule(
                         sales[sale_listings[i].sale_id],
                         saleid_promotion_map[sale_listings[i].sale_id],
                         Some(sale_listings[i].discount_value)),
                     sale_listings[i].channel_id)]
         IN /\ rules' = rules \o created
            /\ rules_info' = infos
    /\ pc' = "translations"
    /\ sale_response' = Null
    /\ UNCHANGED <<migration_run, tog_vars>>
    /\ UNCHANGED <<sales, listings, sale_translations, order_line_discounts,
                   checkout_line_discounts, promotions, promotion_translations,
                   batch_size, phase, first_sale_id, start_pk,
                   sale_listing_batch_pks, sales_batch_pks,
                   saleid_promotion_map, listing_batches, sale_pages>>

migrate_sales_to_promotion_rules ==
    /\ pc = "sale_rules"
    /\ LET batch == OrderByPk({s \in DOMAIN sales : s \in sales_batch_pks})
       IN rules' = rules \o
              [i \in DOMAIN batch |->
                  create_promotion_rule(sales[batch[i]],
                                        saleid_promotion_map[batch[i]], Null)]
    /\ pc' = "translations"
    /\ sale_response' = Null
    /\ UNCHANGED <<migration_run, tog_vars>>
    /\ UNCHANGED <<sales, listings, sale_translations, order_line_discounts,
                   checkout_line_discounts, promotions, promotion_translations,
                   batch_size, phase, first_sale_id, start_pk,
                   sale_listing_batch_pks, sales_batch_pks,
                   saleid_promotion_map, rules_info, listing_batches,
                   sale_pages>>

migrate_translations ==
    /\ pc = "translations"
    /\ promotion_translations' = promotion_translations \cup
          {[promotion |-> saleid_promotion_map[t.sale_id],
            language_code |-> t.language_code] :
              t \in {x \in sale_translations : x.sale_id \in sales_batch_pks}}
    /\ pc' = IF phase = 1 THEN "checkout_line_discounts" ELSE "sale_batches"
    /\ sale_response' = Null
    /\ UNCHANGED <<migration_run, tog_vars>>
    /\ UNCHANGED <<sales, listings, sale_translations, order_line_discounts,
                   checkout_line_discounts, promotions, rules, batch_size,
                   phase, first_sale_id, start_pk, sale_listing_batch_pks,
                   sales_batch_pks, saleid_promotion_map, rules_info,
                   listing_batches, sale_pages>>

migrate_checkout_line_discounts ==
    /\ pc = "checkout_line_discounts"
    /\ checkout_line_discounts' =
          repoint_line_discounts(checkout_line_discounts, sales_batch_pks,
                                 get_rule_by_channel_sale(rules_info))
    /\ pc' = "order_line_discounts"
    /\ sale_response' = Null
    /\ UNCHANGED <<migration_run, tog_vars>>
    /\ UNCHANGED <<sales, listings, sale_translations, order_line_discounts,
                   promotions, rules, promotion_translations, batch_size,
                   phase, first_sale_id, start_pk, sale_listing_batch_pks,
                   sales_batch_pks, saleid_promotion_map, rules_info,
                   listing_batches, sale_pages>>

migrate_order_line_discounts ==
    /\ pc = "order_line_discounts"
    /\ order_line_discounts' =
          repoint_line_discounts(order_line_discounts, sales_batch_pks,
                                 get_rule_by_channel_sale(rules_info))
    /\ pc' = "listing_batches"
    /\ sale_response' = Null
    /\ UNCHANGED <<migration_run, tog_vars>>
    /\ UNCHANGED <<sales, listings, sale_translations,
                   checkout_line_discounts, promotions, rules,
                   promotion_translations, batch_size, phase, first_sale_id,
                   start_pk, sale_listing_batch_pks, sales_batch_pks,
                   saleid_promotion_map, rules_info, listing_batches,
                   sale_pages>>

\* ---------------------------------------------------- handle_sale_toggle
Runs == 1..MaxRuns

\* saleor.discount.utils.CATALOGUE_FIELDS
CATALOGUE_FIELDS == {"categories", "collections", "products", "variants"}

\* saleor.graphql.discount.mutations.utils.CATALOGUE_FIELD_TO_TYPE_NAME
CATALOGUE_FIELD_TO_TYPE_NAME(field) ==
    CASE field = "categories" -> "Category"
      [] field = "collections" -> "Collection"
      [] field = "products" -> "Product"
      [] OTHER -> "ProductVariant"

\* SQL comparisons: with a NULL operand the condition is not true.
sql_lt(a, b) == a # Null /\ b # Null /\ a[1] < b[1]

sql_lte(a, b) == a # Null /\ b # Null /\ a[1] <= b[1]

\* The filter of get_sales_to_notify_about with only its start_date branch.
sales_to_notify_about_start(now) ==
    {s \in DOMAIN sales :
        /\ \/ sales[s].notification_sent_datetime = Null
           \/ sql_lt(sales[s].notification_sent_datetime,
                     Some(sales[s].start_date))
        /\ sql_lte(Some(sales[s].start_date), Some(now))}

\* The rows the queryset of get_sales_to_notify_about selects when it is
\* evaluated: the time now is the one taken when the queryset was built.
sales_to_notify_about(now) ==
    {s \in DOMAIN sales :
        \/ /\ \/ sales[s].notification_sent_datetime = Null
              \/ sql_lt(sales[s].notification_sent_datetime,
                        Some(sales[s].start_date))
           /\ sql_lte(Some(sales[s].start_date), Some(now))
        \/ /\ \/ sales[s].notification_sent_datetime = Null
              \/ sql_lt(sales[s].notification_sent_datetime, sales[s].end_date)
           /\ sql_lte(sales[s].end_date, Some(now))}

\* The branches of the filter of get_sales_to_notify_about that hold for a
\* sale: the start_date branch, the end_date branch, both or none.
events_of(s, now) ==
    {e \in {"start"} :
        /\ \/ sales[s].notification_sent_datetime = Null
           \/ sql_lt(sales[s].notification_sent_datetime,
                     Some(sales[s].start_date))
        /\ sql_lte(Some(sales[s].start_date), Some(now))}
    \cup
    {e \in {"end"} :
        /\ \/ sales[s].notification_sent_datetime = Null
           \/ sql_lt(sales[s].notification_sent_datetime, sales[s].end_date)
        /\ sql_lte(sales[s].end_date, Some(now))}

\* sale_id_to_catalogue_info with every sale given the ids of all of them.
sale_id_to_catalogue_info_shared(selected) ==
    [s \in {x \in selected :
               \E field \in CATALOGUE_FIELDS : sales[x][field] # {}} |->
        [field \in {f \in CATALOGUE_FIELDS :
                       \E x \in selected : sales[x][f] # {}} |->
            {to_global_id(CATALOGUE_FIELD_TO_TYPE_NAME(field), id) :
                id \in UNION {sales[x][field] : x \in selected}}]]

\* sale_id_to_catalogue_info of fetch_catalogue_infos: a sale has an entry,
\* and a field of that entry a set, only once an id was added to it.
sale_id_to_catalogue_info_of(selected) ==
    [s \in {x \in selected :
               \E field \in CATALOGUE_FIELDS : sales[x][field] # {}} |->
        [field \in {f \in CATALOGUE_FIELDS : sales[s][f] # {}} |->
            {to_global_id(CATALOGUE_FIELD_TO_TYPE_NAME(field), id) :
                id \in sales[s][field]}]]

\* catalogue_info where only the first sale of a kind contributes its ids.
catalogue_info_first_only(selected) ==
    [field \in {f \in CATALOGUE_FIELDS :
                   \E s \in selected : sales[s][f] # {}} |->
        LET head == CHOOSE s \in selected :
                /\ sales[s][field] # {}
                /\ \A t \in selected : sales[t][field] # {} => s <= t
        IN sales[head][field]]

\* catalogue_info of fetch_catalogue_infos: the raw ids of all the sales.
catalogue_info_of(selected) ==
    [field \in {f \in CATALOGUE_FIELDS :
                   \E s \in selected : sales[s][f] # {}} |->
        UNION {sales[s][field] : s \in selected}]

\* list(catalogue_infos[field]) of a defaultdict(set): the members of the
\* set as a list, one entry each.
ids_list(catalogue_infos, field) ==
    IF field \in DOMAIN catalogue_infos
    THEN OrderByPk(catalogue_infos[field])
    ELSE <<>>

\* sale_id_to_catalogue_infos.get(sale.id)
catalogues_get(sale_id_to_catalogue_infos, sale_id) ==
    IF sale_id \in DOMAIN sale_id_to_catalogue_infos
    THEN Some(sale_id_to_catalogue_infos[sale_id])
    ELSE Null

IdleRun ==
    [pc |-> "idle",
     now |-> 0,
     sale_id_to_catalogue_infos |-> <<>>,
     catalogue_infos |-> <<>>,
     selected |-> {},
     events |-> <<>>,
     pending |-> {},
     raised |-> FALSE,
     stamp |-> Null]

Ended(i) == toggle[i].pc \in {"returned", "raised", "done"}

\* The loop of handle_sale_toggle that goes on after a hook raised.
after_sale_toggle_swallowing(run, sale_id, raises) ==
    [run EXCEPT !.raised = @ \/ raises,
                !.pending = @ \ {sale_id},
                !.pc = IF run.pending \ {sale_id} = {}
                       THEN "recalculate" ELSE "hooks"]

\* The run after manager.sale_toggle was called for a sale: an exception
\* of the hook leaves handle_sale_toggle, otherwise the loop goes on.
after_sale_toggle(run, sale_id, raises) ==
    IF raises
    THEN [run EXCEPT !.raised = TRUE, !.pc = "raised"]
    ELSE [run EXCEPT !.pending = @ \ {sale_id},
                     !.pc = IF run.pending \ {sale_id} = {}
                            THEN "recalculate" ELSE "hooks"]

\* Time passes.
Tick ==
    /\ clock < MaxTime
    /\ clock' = clock + 1
    /\ UNCHANGED <<sales, mig_vars, overlap, toggle, hook_calls, jobs>>

\* The scheduler starts run i; get_sales_to_notify_about takes the time and
\* builds the queryset, which no statement evaluates yet.
get_sales_to_notify_about(i) ==
    /\ toggle[i].pc = "idle"
    /\ \A j \in Runs : j < i => toggle[j].pc # "idle"
    /\ overlap \/ \A j \in Runs : j < i => Ended(j)
    /\ toggle' = [toggle EXCEPT ![i].pc = "fetch", ![i].now = clock]
    /\ UNCHANGED <<sales, mig_vars, clock, overlap, hook_calls, jobs>>

\* fetch_catalogue_infos(sales): sales.values(...) is a query of its own.
fetch_catalogue_infos(i) ==
    /\ toggle[i].pc = "fetch"
    /\ LET rows == sales_to_notify_about(toggle[i].now)
       IN toggle' = [toggle EXCEPT
              ![i].pc = "check",
              ![i].sale_id_to_catalogue_infos =
                  sale_id_to_catalogue_info_of(rows),
              ![i].catalogue_infos = catalogue_info_of(rows)]
    /\ UNCHANGED <<sales, mig_vars, clock, overlap, hook_calls, jobs>>

\* if not sales: return -- the queryset is evaluated here and its rows are
\* kept for the loop.
check_sales(i) ==
    /\ toggle[i].pc = "check"
    /\ LET rows == sales_to_notify_about(toggle[i].now)
       IN toggle' = [toggle EXCEPT
              ![i].pc = IF rows = {} THEN "returned" ELSE "hooks",
              ![i].selected = rows,
              ![i].events = [s \in rows |-> events_of(s, toggle[i].now)],
              ![i].pending = rows]
    /\ UNCHANGED <<sales, mig_vars, clock, overlap, hook_calls, jobs>>

\* One round of the loop: manager.sale_toggle(sale, catalogues), which may
\* raise.  The rows come in the order the database returned them.
sale_toggle(i) ==
    /\ toggle[i].pc = "hooks"
    /\ \E sale_id \in toggle[i].pending, raises \in BOOLEAN :
         /\ hook_calls' = Append(hook_calls,
                [run |-> i,
                 sale |-> sale_id,
                 catalogues |->
                     catalogues_get(toggle[i].sale_id_to_catalogue_infos,
                                    sale_id)])
         /\ toggle' = [toggle EXCEPT
                ![i] = after_sale_toggle(toggle[i], sale_id, raises)]
    /\ UNCHANGED <<sales, mig_vars, clock, overlap, jobs>>

\* if catalogue_infos: update_products_discounted_prices_of_catalogues_task
\* .delay(...)
recalculate(i) ==
    /\ toggle[i].pc = "recalculate"
    /\ jobs' = IF DOMAIN toggle[i].catalogue_infos # {}
               THEN Append(jobs,
                      [run |-> i,
                       product_ids |->
                           ids_list(toggle[i].catalogue_infos, "products"),
                       category_ids |->
                           ids_list(toggle[i].catalogue_infos, "categories"),
                       collection_ids |->
                           ids_list(toggle[i].catalogue_infos, "collections"),
                       variant_ids |->
                           ids_list(toggle[i].catalogue_infos, "variants")])
               ELSE jobs
    /\ toggle' = [toggle EXCEPT ![i].pc = "update"]
    /\ UNCHANGED <<sales, mig_vars, clock, overlap, hook_calls>>

\* The end of a run that leaves the notification times as they are.
update_unwritten(i) ==
    /\ toggle[i].pc = "update"
    /\ toggle' = [toggle EXCEPT ![i].pc = "done", ![i].stamp = Some(clock)]
    /\ UNCHANGED <<sales, mig_vars, clock, overlap, hook_calls, jobs>>

\* sales.update(notification_sent_datetime=datetime.now(pytz.UTC)): an
\* UPDATE of the rows the filter selects at this moment.
update(i) ==
    /\ toggle[i].pc = "update"
    /\ sales' = [s \in DOMAIN sales |->
                    IF s \in sales_to_notify_about(toggle[i].now)
                    THEN [sales[s] EXCEPT
                             !.notification_sent_datetime = Some(clock)]
                    ELSE sales[s]]
    /\ toggle' = [toggle EXCEPT ![i].pc = "done", ![i].stamp = Some(clock)]
    /\ UNCHANGED <<mig_vars, clock, overlap, hook_calls, jobs>>

handle_sale_toggle(i) ==
    \/ get_sales_to_notify_about(i)
    \/ fetch_catalogue_infos(i)
    \/ check_sales(i)
    \/ sale_toggle(i)
    \/ recalculate(i)
    \/ update(i)

\* ------------------------------------------------------ GraphQL read side
\* Channel.currency_code
currency_code(channel) == IF channel = 1 THEN "USD" ELSE "PLN"

\* QuerySet.first() of a set of primary keys: Null when there is none.
first(pks) ==
    IF pks = {} THEN Null
    ELSE Some(CHOOSE x \in pks : \A y \in pks : x <= y)

\* The last rule of the promotion instead of the first.
last_rule(promotion) ==
    LET owned == {r \in DOMAIN rules : rules[r].promotion = promotion}
    IN IF owned = {} THEN Null
       ELSE Some(CHOOSE x \in owned : \A y \in owned : y <= x)

\* root.node.rules.first()
first_rule(promotion) ==
    first({r \in DOMAIN rules : rules[r].promotion = promotion})

\* models.Promotion.objects.filter(old_sale_id=id).first()
resolve_sale(id) ==
    first({p \in DOMAIN promotions : promotions[p].old_sale_id = id})

resolve_type(promotion) ==
    LET rule == first_rule(promotion)
    IN IF rule # Null THEN Some(rules[rule[1]].reward_value_type) ELSE Null

resolve_discount_value(promotion) ==
    LET rule == first_rule(promotion)
    IN IF rule # Null THEN rules[rule[1]].reward_value ELSE Null

resolve_currency(promotion) ==
    LET rule == first_rule(promotion)
    IN IF rule # Null
       THEN LET channel == first(rules[rule[1]].channels)
            IN IF channel # Null THEN Some(currency_code(channel[1])) ELSE Null
       ELSE Null

resolve_channel_listings(promotion) ==
    LET rule == first_rule(promotion)
    IN IF rule # Null
       THEN LET channel == first(rules[rule[1]].channels)
            IN IF channel # Null
               THEN Some(<<[id |-> to_global_id("SaleChannelListing", rule[1]),
                            channel |-> channel[1],
                            discount_value |-> rules[rule[1]].reward_value,
                            currency |-> currency_code(channel[1])]>>)
               ELSE Null
       ELSE Null

\* The sale(id) query: resolve_sale, then the field resolvers of the Sale
\* type on the Promotion found.
QuerySale(id) ==
    /\ LET promotion == resolve_sale(id)
       IN sale_response' =
            Some([id |-> id,
                  sale |-> IF promotion = Null THEN Null
                           ELSE Some(
                             [promotion |-> promotion[1],
                              type |-> resolve_type(promotion[1]),
                              discount_value |->
                                  resolve_discount_value(promotion[1]),
                              currency |-> resolve_currency(promotion[1]),
                              channel_listings |->
                                  resolve_channel_listings(promotion[1])])])
    /\ UNCHANGED <<sales, listings, sale_translations, order_line_discounts,
                   checkout_line_discounts, promotions, rules,
                   promotion_translations, batch_size, pc, phase,
                   first_sale_id, start_pk, sale_listing_batch_pks,
                   sales_batch_pks, saleid_promotion_map, rules_info,
                   listing_batches, sale_pages, migration_run>>
    /\ UNCHANGED tog_vars

\* ------------------------------------------------------- initial states
\* The catalogue associations of the sale with primary key s.
CatalogueOf(s) ==
    CASE s % 4 = 1 -> [collections |-> {}, categories |-> {},
                       products |-> {}, variants |-> {}]
      [] s % 4 = 2 -> [collections |-> {}, categories |-> {},
                       products |-> {1, 2}, variants |-> {}]
      [] s % 4 = 3 -> [collections |-> {1}, categories |-> {},
                       products |-> {}, variants |-> {2}]
      [] OTHER     -> [collections |-> {}, categories |-> {1},
                       products |-> {1}, variants |-> {}]

SaleRow(type, start_date, end_date, notification_sent_datetime, catalogue) ==
    [type |-> type,
     start_date |-> start_date,
     end_date |-> end_date,
     notification_sent_datetime |-> notification_sent_datetime,
     collections |-> catalogue.collections,
     categories |-> catalogue.categories,
     products |-> catalogue.products,
     variants |-> catalogue.variants]

\* The primary key of the listing of sale s in channel c; primary keys do
\* not follow the order of sale ids.
ListingPk(s, c) == (MaxSale + 1 - s) * 10 + c

\* A line discount row for every line a sale of the set can have discounted:
\* a line deleted since (no line), or a line of an order / checkout in
\* either channel.
LineDiscountRows(discounted) ==
    {[pk |-> s * 10 + (IF line = Null THEN 0 ELSE line[1]),
      sale_id |-> s,
      line |-> line,
      promotion_rule |-> Null] :
        s \in discounted, line \in {Null} \cup {Some(c) : c \in Channels}}

\* Any listings of the sales 1..n: at most one per sale and channel.
InitListings(n) ==
    \E listed \in SUBSET ((1..n) \X Channels) :
        /\ Cardinality(listed) <= MaxListings
        /\ \E discount_value \in [listed -> DiscountValues] :
             listings = {[pk |-> ListingPk(sc[1], sc[2]),
                          sale_id |-> sc[1],
                          channel_id |-> sc[2],
                          discount_value |-> discount_value[sc]] :
                             sc \in listed}

\* No Promotion yet, the migration about to start.
InitRun ==
    /\ batch_size \in 1..MaxBatchSize
    /\ promotions = <<>>
    /\ rules = <<>>
    /\ promotion_translations = {}
    /\ migration_run = 1
    /\ pc = "listing_batches"
    /\ phase = 1
    /\ first_sale_id = 0
    /\ start_pk = 0
    /\ sale_listing_batch_pks = {}
    /\ sales_batch_pks = {}
    /\ saleid_promotion_map = <<>>
    /\ rules_info = <<>>
    /\ listing_batches = <<>>
    /\ sale_pages = <<>>
    /\ sale_response = Null

\* No run of handle_sale_toggle yet.
InitIdle ==
    /\ clock = 1
    /\ toggle = [i \in Runs |-> IdleRun]
    /\ hook_calls = <<>>
    /\ jobs = <<>>

InitMigration ==
    \E n \in 0..MaxSale :
      /\ sales = [s \in 1..n |->
             SaleRow(IF s % 2 = 1 THEN "fixed" ELSE "percentage",
                     1, Null, Null, CatalogueOf(s))]
      /\ InitListings(n)
      /\ \E translated \in {{}, 1..n} :
           sale_translations =
               {[sale_id |-> s, language_code |-> "pl"] : s \in translated}
      /\ \E discounted \in {{}, 1..n} :
           /\ order_line_discounts = LineDiscountRows(discounted)
           /\ checkout_line_discounts = LineDiscountRows(discounted)
      /\ InitRun
      /\ InitIdle
      /\ overlap = FALSE

Init == InitMigration

\* The migration observed by sale(id) queries: at most two sales, no
\* translations and no line discounts, which the query does not read.
InitQuery ==
    /\ InitMigration
    /\ Len(sales) <= 2
    /\ sale_translations = {}
    /\ order_line_discounts = {}
    /\ checkout_line_discounts = {}

\* convert_sales_to_promotions, one call or generator resumption at a time.
convert_sales_to_promotions ==
    \/ channel_listing_in_batches
    \/ migrate_sales_to_promotions
    \/ migrate_sale_listing_to_promotion_rules
    \/ migrate_translations
    \/ migrate_checkout_line_discounts
    \/ migrate_order_line_discounts
    \/ queryset_in_batches
    \/ migrate_sales_to_promotion_rules

\* convert_sales_to_promotions is called again after it returned: its locals
\* are fresh, the tables are what the calls before left.
Rerun ==
    /\ pc = "done"
    /\ migration_run < MaxMigrations
    /\ migration_run' = migration_run + 1
    /\ pc' = "listing_batches"
    /\ phase' = 1
    /\ first_sale_id' = 0
    /\ start_pk' = 0
    /\ sale_listing_batch_pks' = {}
    /\ sales_batch_pks' = {}
    /\ saleid_promotion_map' = <<>>
    /\ rules_info' = <<>>
    /\ listing_batches' = <<>>
    /\ sale_pages' = <<>>
    /\ sale_response' = Null
    /\ UNCHANGED tog_vars
    /\ UNCHANGED <<sales, listings, sale_translations, order_line_discounts,
                   checkout_line_discounts, promotions, rules,
                   promotion_translations, batch_size>>

\* One sale with any catalogue associations, listed in a channel or in none.
InitPredicate ==
    /\ \E collections \in SUBSET (1..MaxCatalogueId),
          categories \in SUBSET (1..MaxCatalogueId),
          products \in SUBSET (1..MaxCatalogueId),
          variants \in SUBSET (1..MaxCatalogueId) :
         sales = <<SaleRow("fixed", 1, Null, Null,
                           [collections |-> collections,
                            categories |-> categories,
                            products |-> products,
                            variants |-> variants])>>
    /\ InitListings(1)
    /\ \A l \in listings : l.channel_id = 1 /\ l.discount_value = 10
    /\ sale_translations = {[sale_id |-> 1, language_code |-> "pl"]}
    /\ order_line_discounts = LineDiscountRows({1})
    /\ checkout_line_discounts = LineDiscountRows({1})
    /\ InitRun
    /\ InitIdle
    /\ overlap = FALSE

\* Two sales that are not migrated.  The first has any dates and was
\* notified before its start or never; the second was never notified and
\* has no end.  Runs of handle_sale_toggle come one after the other.
InitToggle ==
    /\ \E start_date \in {1, 2},
          end_date \in {Null, Some(2), Some(3)},
          notified \in {Null, Some(0)},
          catalogue \in {CatalogueOf(1), CatalogueOf(4)},
          start_date_2 \in {1, 2},
          catalogue_2 \in {CatalogueOf(1), CatalogueOf(2)} :
         sales = <<SaleRow("fixed", start_date, end_date, notified, catalogue),
                   SaleRow("percentage", start_date_2, Null, Null,
                           catalogue_2)>>
    /\ listings = {}
    /\ sale_translations = {}
    /\ order_line_discounts = {}
    /\ checkout_line_discounts = {}
    /\ InitRun
    /\ batch_size = 1
    /\ InitIdle
    /\ overlap = FALSE

Next == convert_sales_to_promotions

Spec == Init /\ [][Next]_vars

\* The read side runs on demand, between any two steps of the migration.
NextQuery ==
    \/ convert_sales_to_promotions
    \/ \E id \in 1..(Len(sales) + 1) : QuerySale(id)

SpecQuery == InitQuery /\ [][NextQuery]_vars

\* create_catalogue_predicate applied by the migration to every input.
NextPredicate == convert_sales_to_promotions

SpecPredicate == InitPredicate /\ [][NextPredicate]_vars

\* The notification task on its schedule.
NextToggle ==
    \/ Tick
    \/ \E i \in Runs : handle_sale_toggle(i)

SpecToggle == InitToggle /\ [][NextToggle]_vars

\* The migration of sales without translations and line discounts, which
\* channel_listing_in_batches does not read.
InitListing ==
    /\ InitMigration
    /\ sale_translations = {}
    /\ order_line_discounts = {}
    /\ checkout_line_discounts = {}

NextListing == convert_sales_to_promotions

\* The migration runs on: a step that can be taken is taken.
SpecListing == InitListing /\ [][NextListing]_vars /\ WF_vars(NextListing)

\* At most two sales, migrated more than once.
InitRerun ==
    /\ InitMigration
    /\ Len(sales) <= 2

NextRerun ==
    \/ convert_sales_to_promotions
    \/ Rerun

SpecRerun == InitRerun /\ [][NextRerun]_vars

\* One sale that was never notified; the scheduler either waits for a run
\* to end before it starts the next or does not.
InitOverlap ==
    /\ \E end_date \in {Null, Some(2)} :
         sales = <<SaleRow("fixed", 1, end_date, Null, CatalogueOf(2))>>
    /\ listings = {}
    /\ sale_translations = {}
    /\ order_line_discounts = {}
    /\ checkout_line_discounts = {}
    /\ InitRun
    /\ batch_size = 1
    /\ InitIdle
    /\ overlap \in BOOLEAN

\* The notification task under a scheduler that may start a run while
\* another is running.
NextOverlap ==
    \/ Tick
    \/ \E i \in Runs : handle_sale_toggle(i)

SpecOverlap == InitOverlap /\ [][NextOverlap]_vars

\* ================================================================ claims
ListingsOf(s) == {l \in listings : l.sale_id = s}

PromotionsOf(s) == {p \in DOMAIN promotions : promotions[p].old_sale_id = s}

RulesOf(p) == {r \in DOMAIN rules : rules[r].promotion = p}

\* The rules made from listing l: owned by a promotion of l's sale, carrying
\* l's discount value, in l's channel only.
RulesFrom(l) ==
    {r \in DOMAIN rules :
        /\ rules[r].promotion \in PromotionsOf(l.sale_id)
        /\ rules[r].reward_value = Some(l.discount_value)
        /\ rules[r].channels = {l.channel_id}}

\* C1: after a complete run that started with no Promotion, every sale with
\* a listing has exactly one Promotion; that Promotion owns, for each listing
\* of the sale, exactly one rule with the listing's discount value and only
\* the listing's channel, and owns no other rule.
C1_ListedSalesMigrated ==
    pc = "done" =>
        \A s \in DOMAIN sales :
            ListingsOf(s) # {} =>
                /\ Cardinality(PromotionsOf(s)) = 1
                /\ \A p \in PromotionsOf(s) :
                      /\ \A l \in ListingsOf(s) :
                            Cardinality(RulesFrom(l) \cap RulesOf(p)) = 1
                      /\ Cardinality(RulesOf(p)) = Cardinality(ListingsOf(s))

\* C1 witness: a finished run of several batches in which a sale's listings
\* straddled the BATCH_SIZE window, so that a batch outgrew BATCH_SIZE.
C1_Witness ==
    /\ pc = "done"
    /\ Len(listing_batches) >= 2
    /\ \E i \in DOMAIN listing_batches :
          Cardinality(listing_batches[i]) > batch_size
    /\ \E s \in DOMAIN sales : Cardinality(ListingsOf(s)) >= 2

\* C2: after a complete run, every sale without a listing has exactly one
\* Promotion, which owns exactly one rule, with no reward value and no
\* channel; the listing-driven first phase creates no Promotion for it.
C2_UnlistedSalesMigrated ==
    /\ pc = "done" =>
          \A s \in sales_not_listed :
              /\ Cardinality(PromotionsOf(s)) = 1
              /\ \A p \in PromotionsOf(s) :
                    /\ Cardinality(RulesOf(p)) = 1
                    /\ \A r \in RulesOf(p) :
                          /\ rules[r].reward_value = Null
                          /\ rules[r].channels = {}
    /\ phase = 1 => \A s \in sales_not_listed : PromotionsOf(s) = {}

\* C2 witness: a finished run over listed and unlisted sales, the unlisted
\* ones taking more than one batch.
C2_Witness ==
    /\ pc = "done"
    /\ listings # {}
    /\ Cardinality(sales_not_listed) >= 2
    /\ Len(sale_pages) >= 3

\* C3: a yielded batch that holds one listing of a sale holds every listing
\* of that sale, even of a sale with more than BATCH_SIZE listings; no two
\* yielded batches hold listings of one sale; once the iterator is exhausted
\* every listing was yielded.
C3_BatchNeverSplitsSale ==
    /\ \A i \in DOMAIN listing_batches : \A l \in listings :
          l.pk \in listing_batches[i] =>
              \A m \in ListingsOf(l.sale_id) : m.pk \in listing_batches[i]
    /\ \A i, j \in DOMAIN listing_batches :
          i # j => listing_batches[i] \cap listing_batches[j] = {}
    /\ phase = 2 =>
          \A l \in listings :
              \E i \in DOMAIN listing_batches : l.pk \in listing_batches[i]

\* C3 witness: a sale with more listings than BATCH_SIZE was yielded in one
\* batch, after an earlier batch.
C3_Witness ==
    \E i \in DOMAIN listing_batches : \E s \in DOMAIN sales :
        /\ i >= 2
        /\ Cardinality(ListingsOf(s)) > batch_size
        /\ \A l \in ListingsOf(s) : l.pk \in listing_batches[i]

RECURSIVE Flatten(_)
Flatten(pages) ==
    IF pages = <<>> THEN <<>> ELSE Head(pages) \o Flatten(Tail(pages))

\* C4: over the N sales not listed, with batch size B, queryset_in_batches
\* fetches ceil(N/B) non-empty pages of at most B keys and then one empty
\* page, at which it stops; the pages together hold every key exactly once,
\* in ascending order.
C4_PlainBatches ==
    LET N == Cardinality(sales_not_listed)
        B == batch_size
        keys == Flatten(sale_pages)
    IN /\ \A i \in DOMAIN sale_pages :
             /\ Len(sale_pages[i]) <= B
             /\ sale_pages[i] = <<>> => (i = Len(sale_pages) /\ pc = "done")
       /\ \A i, j \in DOMAIN keys : i < j => keys[i] < keys[j]
       /\ Range(keys) \subseteq sales_not_listed
       /\ pc = "done" =>
             /\ Len(sale_pages) = ((N + B - 1) \div B) + 1
             /\ sale_pages[Len(sale_pages)] = <<>>
             /\ Range(keys) = sales_not_listed

\* C4 witness: N is not a multiple of B: a full page, a shorter one, the
\* empty one.
C4_Witness ==
    /\ pc = "done"
    /\ Len(sale_pages) = 3
    /\ Len(sale_pages[1]) = 2
    /\ Len(sale_pages[2]) = 1

PredicateKinds ==
    <<"collectionPredicate", "categoryPredicate", "productPredicate",
      "variantPredicate">>

\* The global ids a predicate clause of a kind must hold for a sale.
ExpectedIds(sale, kind) ==
    CASE kind = "collectionPredicate" ->
             {<<"Collection", pk>> : pk \in sale.collections}
      [] kind = "categoryPredicate" ->
             {<<"Category", pk>> : pk \in sale.categories}
      [] kind = "productPredicate" ->
             {<<"Product", pk>> : pk \in sale.products}
      [] OTHER ->
             {<<"ProductVariant", pk>> : pk \in sale.variants}

\* Position of the kind of a clause in PredicateKinds, 0 for no such kind.
KindIndex(clause) ==
    IF \E k \in DOMAIN PredicateKinds : DOMAIN clause = {PredicateKinds[k]}
    THEN CHOOSE k \in DOMAIN PredicateKinds : DOMAIN clause = {PredicateKinds[k]}
    ELSE 0

\* C5: the catalogue predicate of every rule is {"OR": L}; the clauses of L
\* come in the order collection, category, product, variant; a kind has a
\* clause iff the source sale has associations of that kind, and the clause
\* holds exactly their global ids; so L is empty iff the sale has none.
C5_CataloguePredicate ==
    \A r \in DOMAIN rules :
        LET sale == sales[promotions[rules[r].promotion].old_sale_id]
            predicate == rules[r].catalogue_predicate
            L == predicate.OR
        IN /\ DOMAIN predicate = {"OR"}
           /\ \A i \in DOMAIN L :
                 /\ KindIndex(L[i]) # 0
                 /\ DOMAIN L[i][PredicateKinds[KindIndex(L[i])]] = {"ids"}
                 /\ L[i][PredicateKinds[KindIndex(L[i])]].ids =
                       ExpectedIds(sale, PredicateKinds[KindIndex(L[i])])
                 /\ L[i][PredicateKinds[KindIndex(L[i])]].ids # {}
           /\ \A i, j \in DOMAIN L :
                 i < j => KindIndex(L[i]) < KindIndex(L[j])
           /\ \A k \in DOMAIN PredicateKinds :
                 ExpectedIds(sale, PredicateKinds[k]) # {} =>
                     \E i \in DOMAIN L : KindIndex(L[i]) = k
           /\ (L = <<>>) <=>
                 (sale.collections \cup sale.categories \cup sale.products
                      \cup sale.variants = {})

\* C5 witness: a rule of a sale with collections and two products, no
\* category and no variant: two clauses, the product one second.
C5_Witness ==
    \E r \in DOMAIN rules :
        LET L == rules[r].catalogue_predicate.OR
        IN /\ Len(L) = 2
           /\ DOMAIN L[1] = {"collectionPredicate"}
           /\ DOMAIN L[2] = {"productPredicate"}
           /\ Cardinality(L[2].productPredicate.ids) = 2

LineDiscounts == order_line_discounts \cup checkout_line_discounts

\* The rule a line discount points at was created for the discount's sale
\* and the channel of its line.
PointsAtRuleOfPair(d) ==
    /\ d.line # Null
    /\ d.promotion_rule[1] \in DOMAIN rules
    /\ rules[d.promotion_rule[1]].channels = {d.line[1]}
    /\ promotions[rules[d.promotion_rule[1]].promotion].old_sale_id = d.sale_id
    /\ \E l \in ListingsOf(d.sale_id) :
          /\ l.channel_id = d.line[1]
          /\ rules[d.promotion_rule[1]].reward_value = Some(l.discount_value)

\* C7: an order or checkout line discount points at a rule only if the rule
\* was created for its exact (channel, sale) pair; one without a line, or
\* whose pair has no rule, keeps the reference it had (none); after
\* the migration every discount whose sale is listed in the channel of its
\* line points at the rule made from that listing.
C7_Repointing ==
    /\ \A d \in LineDiscounts :
          d.promotion_rule # Null => PointsAtRuleOfPair(d)
    /\ pc = "done" =>
          \A d \in LineDiscounts :
              (/\ d.line # Null
               /\ \E l \in ListingsOf(d.sale_id) : l.channel_id = d.line[1])
                  => d.promotion_rule # Null

\* C7 witness: after the migration, of two order line discounts of one sale
\* one was re-pointed and the other, of a channel the sale is not listed
\* in, was not; so for two checkout line discounts.
C7_Witness ==
    /\ pc = "done"
    /\ \E d, e \in order_line_discounts :
          /\ d.sale_id = e.sale_id
          /\ d.promotion_rule # Null
          /\ e.line # Null /\ e.promotion_rule = Null
    /\ \E d, e \in checkout_line_discounts :
          /\ d.sale_id = e.sale_id
          /\ d.promotion_rule # Null
          /\ e.line # Null /\ e.promotion_rule = Null

Due(sale, now) ==
    \/ /\ sale.start_date <= now
       /\ \/ sale.notification_sent_datetime = Null
          \/ sale.notification_sent_datetime[1] < sale.start_date
    \/ /\ sale.end_date # Null
       /\ sale.end_date[1] <= now
       /\ \/ sale.notification_sent_datetime = Null
          \/ sale.notification_sent_datetime[1] < sale.end_date[1]

\* No run was started after run i.
LastStarted(i) == \A j \in Runs : j > i => toggle[j].pc = "idle"

\* C6: a run selects exactly the sales that are due at the time it took:
\* started and never notified or notified before the start, or ended and
\* never notified or notified before the end.  When the run completes, every
\* sale it selected carries the time at which the run wrote it, which is not
\* before the selection time.
C6_NotificationSelection ==
    \A i \in Runs :
        /\ toggle[i].pc \in {"hooks", "recalculate", "update"} =>
              toggle[i].selected =
                  {s \in DOMAIN sales : Due(sales[s], toggle[i].now)}
        /\ (toggle[i].pc = "returned" /\ LastStarted(i)) =>
              \A s \in DOMAIN sales : ~Due(sales[s], toggle[i].now)
        /\ (toggle[i].pc = "done" /\ LastStarted(i)) =>
              /\ toggle[i].stamp # Null
              /\ toggle[i].now <= toggle[i].stamp[1]
              /\ toggle[i].stamp[1] <= clock
              /\ \A s \in toggle[i].selected :
                    sales[s].notification_sent_datetime = toggle[i].stamp

\* C6 witness: the first run selected a started sale that was never notified
\* and stamped it at a later time; the second run, the sale having no end
\* date, does not select it.
C6_Witness ==
    \E s \in DOMAIN sales :
        /\ toggle[1].pc = "done"
        /\ s \in toggle[1].selected
        /\ toggle[1].stamp[1] > toggle[1].now
        /\ sales[s].end_date = Null
        /\ sales[s].notification_sent_datetime = toggle[1].stamp
        /\ toggle[2].pc \in {"hooks", "returned"}
        /\ s \notin toggle[2].selected

\* The hook calls run i made for a sale.
CallsOf(i, s) ==
    {k \in DOMAIN hook_calls :
        hook_calls[k].run = i /\ hook_calls[k].sale = s}

\* The global ids of a field in the catalogue info passed to a hook.
PassedIds(catalogues, field) ==
    IF catalogues = Null THEN {}
    ELSE IF field \in DOMAIN catalogues[1] THEN catalogues[1][field] ELSE {}

\* C8: a run calls sale_toggle once for each sale it selected and for no
\* other sale, each time with the global ids of that sale's own categories,
\* collections, products and variants; a run that selects no sale calls no
\* hook, enqueues no job and writes no notification time.
C8_HookOncePerSale ==
    \A i \in Runs :
        /\ \A s \in DOMAIN sales :
              /\ Cardinality(CallsOf(i, s)) <= 1
              /\ s \notin toggle[i].selected => CallsOf(i, s) = {}
              /\ (toggle[i].pc \in {"recalculate", "update", "done"}
                    /\ s \in toggle[i].selected)
                     => Cardinality(CallsOf(i, s)) = 1
        /\ \A k \in DOMAIN hook_calls :
              LET sale == sales[hook_calls[k].sale]
                  passed == hook_calls[k].catalogues
              IN /\ PassedIds(passed, "categories") =
                       {<<"Category", id>> : id \in sale.categories}
                 /\ PassedIds(passed, "collections") =
                       {<<"Collection", id>> : id \in sale.collections}
                 /\ PassedIds(passed, "products") =
                       {<<"Product", id>> : id \in sale.products}
                 /\ PassedIds(passed, "variants") =
                       {<<"ProductVariant", id>> : id \in sale.variants}
        /\ toggle[i].pc = "returned" =>
              /\ toggle[i].selected = {}
              /\ \A k \in DOMAIN hook_calls : hook_calls[k].run # i
              /\ \A k \in DOMAIN jobs : jobs[k].run # i
              /\ toggle[i].stamp = Null

\* C8 witness: a completed run that selected two sales of different
\* catalogues and called the hook for both, after a run that selected none.
C8_Witness ==
    /\ toggle[1].pc = "returned"
    /\ toggle[2].pc = "done"
    /\ \E s, t \in toggle[2].selected :
          /\ sales[s].products # {}
          /\ sales[t].categories # {}
          /\ sales[s].categories = {}
          /\ CallsOf(2, s) # {}
          /\ CallsOf(2, t) # {}

\* C10: when sale_toggle raises, the run ends there: it writes no
\* notification time, not even for the sales whose hook had returned, and
\* enqueues no job; while no run has written, every sale has the
\* notification time it started with.
C10_RaisingHook ==
    /\ \A i \in Runs :
          toggle[i].raised =>
              /\ toggle[i].pc = "raised"
              /\ toggle[i].stamp = Null
              /\ \A k \in DOMAIN jobs : jobs[k].run # i
    /\ (\A i \in Runs : toggle[i].stamp = Null) =>
          \A s \in DOMAIN sales :
              sales[s].notification_sent_datetime \in {Null, Some(0)}

\* C10 witness: the hook raised for the second sale of a run with catalogue
\* ids to recalculate, after it had returned for the first.
C10_Witness ==
    \E i \in Runs :
        /\ toggle[i].raised
        /\ Cardinality({k \in DOMAIN hook_calls : hook_calls[k].run = i}) = 2
        /\ DOMAIN toggle[i].catalogue_infos # {}
        /\ \A s \in toggle[i].selected :
              sales[s].notification_sent_datetime = Null

\* The jobs run i enqueued.
JobsOf(i) == {k \in DOMAIN jobs : jobs[k].run = i}

\* A list without repeated entries that holds exactly the members of ids.
ListsExactly(list, ids) ==
    /\ Range(list) = ids
    /\ \A a, b \in DOMAIN list : a # b => list[a] # list[b]

\* C11: a run enqueues the recalculation job at most once, only after the
\* hook was called for every selected sale and before the notification
\* times are written; past that point it has enqueued it iff a selected sale
\* has a catalogue association, with, per kind, the ids of all the selected
\* sales, each once.
C11_RecalculationJob ==
    \A i \in Runs :
        /\ Cardinality(JobsOf(i)) <= 1
        /\ JobsOf(i) # {} =>
              /\ toggle[i].pc \in {"update", "done"}
              /\ \A s \in toggle[i].selected : CallsOf(i, s) # {}
        /\ toggle[i].pc = "update" => toggle[i].stamp = Null
        /\ toggle[i].pc \in {"update", "done"} =>
              /\ (JobsOf(i) # {}) <=>
                    \E s \in toggle[i].selected :
                        sales[s].products \cup sales[s].categories
                          \cup sales[s].collections \cup sales[s].variants # {}
              /\ \A k \in JobsOf(i) :
                    /\ ListsExactly(jobs[k].product_ids,
                          UNION {sales[s].products : s \in toggle[i].selected})
                    /\ ListsExactly(jobs[k].category_ids,
                          UNION {sales[s].categories :
                                    s \in toggle[i].selected})
                    /\ ListsExactly(jobs[k].collection_ids,
                          UNION {sales[s].collections :
                                    s \in toggle[i].selected})
                    /\ ListsExactly(jobs[k].variant_ids,
                          UNION {sales[s].variants : s \in toggle[i].selected})

\* C11 witness: a run whose two selected sales share a product has enqueued
\* the job, with that product once, and has not written the times yet.
C11_Witness ==
    \E i \in Runs : \E k \in JobsOf(i) : \E s, t \in toggle[i].selected :
        /\ toggle[i].pc = "update"
        /\ s # t
        /\ sales[s].products \cap sales[t].products # {}
        /\ sales[s].products # sales[t].products
        /\ Len(jobs[k].product_ids) = 2
        /\ Len(jobs[k].category_ids) = 1

\* Runs i and j both called the hook for sale s for a same event.
NotifiedTwice(i, j, s) ==
    /\ i # j
    /\ CallsOf(i, s) # {}
    /\ CallsOf(j, s) # {}
    /\ toggle[i].events[s] \cap toggle[j].events[s] # {}

\* C12 as stated: runs that come strictly one after the other never call
\* the hook twice for a same sale and event.
C12_SequentialNeverTwice ==
    ~overlap =>
        \A i, j \in Runs : \A s \in DOMAIN sales : ~NotifiedTwice(i, j, s)

\* C12: runs that come strictly one after the other call the hook twice for
\* a same sale and event only when the earlier run ended by an exception of
\* a hook, which leaves the notification times unwritten; nothing but the
\* scheduler keeps a run from starting while another is running, and the
\* later of two such runs can call the hook for a sale and event for which
\* the earlier, which raised nothing, called it too.
C12_DoubleNotification ==
    /\ ~overlap =>
          \A i, j \in Runs : \A s \in DOMAIN sales :
              (i < j /\ NotifiedTwice(i, j, s)) => toggle[i].pc = "raised"
    /\ \A i, j \in Runs :
          (i < j /\ toggle[j].pc # "idle" /\ ~Ended(i)) => overlap

\* C12 witness: two overlapping runs, neither of which raised, both called
\* the hook for the start of a same sale, the second having selected it
\* before the first wrote the notification time.
C12_Witness ==
    /\ overlap
    /\ \E s \in DOMAIN sales :
          /\ NotifiedTwice(1, 2, s)
          /\ "start" \in toggle[1].events[s] \cap toggle[2].events[s]
          /\ toggle[1].pc = "done"
          /\ toggle[2].pc = "done"
          /\ ~toggle[1].raised
          /\ ~toggle[2].raised

\* The rules owned by the promotions of sale s.
RulesOfSale(s) ==
    {r \in DOMAIN rules : rules[r].promotion \in PromotionsOf(s)}

\* The rules one call creates for sale s: one per listing, or one when the
\* sale has no listing.
RulesPerRun(s) ==
    IF ListingsOf(s) = {} THEN 1 ELSE Cardinality(ListingsOf(s))

\* C13: every call of convert_sales_to_promotions creates a Promotion and
\* rules for every sale, whatever Promotions exist: after the n-th call over
\* unchanged sales each sale has n Promotions with its old_sale_id and n
\* times the rules of one call, so that after the first call old_sale_id is
\* unique across Promotions and after the second it is not.
C13_NotIdempotent ==
    pc = "done" =>
        /\ \A s \in DOMAIN sales :
              /\ Cardinality(PromotionsOf(s)) = migration_run
              /\ Cardinality(RulesOfSale(s)) = migration_run * RulesPerRun(s)
        /\ (\A p, q \in DOMAIN promotions :
               promotions[p].old_sale_id = promotions[q].old_sale_id => p = q)
             <=> (migration_run = 1 \/ sales = <<>>)

\* C13 witness: the second call returned, over a sale with listings and a
\* sale without, and two Promotions carry the old_sale_id of each.
C13_Witness ==
    /\ pc = "done"
    /\ migration_run = 2
    /\ Len(sales) = 2
    /\ \E s, t \in DOMAIN sales :
          /\ ListingsOf(s) # {}
          /\ ListingsOf(t) = {}
          /\ Cardinality(PromotionsOf(s)) = 2
          /\ Cardinality(PromotionsOf(t)) = 2
    /\ \E p, q \in DOMAIN promotions :
          p # q /\ promotions[p].old_sale_id = promotions[q].old_sale_id

\* The events for which run i selected sale s.
EventsOf(i, s) ==
    IF s \in DOMAIN toggle[i].events THEN toggle[i].events[s] ELSE {}

\* Run i has evaluated its selection.
Evaluated(i) ==
    toggle[i].pc \in {"returned", "hooks", "recalculate", "update", "done",
                      "raised"}

\* The time of an event of a sale, if it has one.
EventDate(sale, e) ==
    IF e = "start" THEN Some(sale.start_date) ELSE sale.end_date

\* C14: across runs that come one after the other and in which no hook
\* raises, no start or end event of a sale is repeated or lost: no two runs
\* call the hook for a same sale and event, and a run that takes its time at
\* or after an event of a sale selects the sale for that event unless an
\* earlier run selected it for that event, wherever the event falls between
\* the time an earlier run took and the time that run wrote.
C14_NoEventLostOrRepeated ==
    (~overlap /\ \A i \in Runs : ~toggle[i].raised) =>
        \A s \in DOMAIN sales :
            /\ \A i, j \in Runs : ~NotifiedTwice(i, j, s)
            /\ \A j \in Runs : \A e \in {"start", "end"} :
                  (/\ Evaluated(j)
                   /\ sql_lte(EventDate(sales[s], e), Some(toggle[j].now))
                   /\ \A i \in Runs : i < j => e \notin EventsOf(i, s))
                      => e \in EventsOf(j, s)

\* The batches that hold the primary key of listing l.
BatchesOf(l) == {i \in DOMAIN listing_batches : l.pk \in listing_batches[i]}

\* The sale ids of the listings of the i-th batch.
SaleIdsOf(i) == {l.sale_id : l \in {m \in listings : m.pk \in listing_batches[i]}}

\* What holds of the batches yielded so far: none is empty, each holds
\* primary keys of listings only, no key is in two of them, every sale_id of
\* a later batch is above every sale_id of an earlier one, and once the
\* iterator has stopped every key is in one.
YieldedInOrder ==
    /\ \A i \in DOMAIN listing_batches :
          /\ listing_batches[i] # {}
          /\ listing_batches[i] \subseteq {l.pk : l \in listings}
    /\ \A l \in listings : Cardinality(BatchesOf(l)) <= 1
    /\ \A i, j \in DOMAIN listing_batches :
          i < j => \A a \in SaleIdsOf(i) : \A b \in SaleIdsOf(j) : a < b
    /\ phase = 2 => \A l \in listings : Cardinality(BatchesOf(l)) = 1

\* C15: over a listing table that does not change, channel_listing_in_batches
\* stops; the batches it yields are not empty, hold every listing primary
\* key exactly once, and come in strictly increasing sale_id ranges.
C15_ListingBatchesTerminate == []YieldedInOrder /\ <>(phase = 2)

\* C15 witness: the iterator stopped after several batches, one of which
\* holds listings of two sales.
C15_Witness ==
    /\ phase = 2
    /\ Len(listing_batches) >= 2
    /\ \E i \in DOMAIN listing_batches : Cardinality(SaleIdsOf(i)) >= 2

====
